---------------------------- MODULE Spec2Model ----------------------------
(***************************************************************************)
(* CardPuter Charge Mode (cardputer_charge_mode.ino).                      *)
(*                                                                         *)
(* The firmware is a single thread: setup() runs once, then loop() runs    *)
(* forever.  The module holds six specifications over one set of           *)
(* variables:                                                              *)
(*   Spec          setup() step by step, then loop() iterations, with the  *)
(*                 millisecond clock;                                      *)
(*   SpecClassify  getBatteryColor called with any level in 0..100;        *)
(*   SpecScenario  getBatteryColor fed a sequence of readings chosen at    *)
(*                 the start;                                              *)
(*   SpecEncoder   setLedColor and the ws2812_encode sessions the RMT      *)
(*                 driver runs for it;                                     *)
(*   SpecLevel     getBatteryLevel called with rising ADC readings;        *)
(*   SpecConverge  getBatteryColor fed one reading, then a constant level. *)
(***************************************************************************)
EXTENDS Integers, Sequences, FiniteSets

VARIABLES
  \* ---- firmware (globals of the sketch and the hardware they drive) ----
  pc,             \* position of the thread of control in setup()/loop()
  now,            \* millis()
  duty,           \* backlight PWM duty register (0 = never configured)
  spi_err,        \* what spi_bus_initialize returned ("none" before the call)
  spi_lcd,        \* spi_lcd != NULL
  led_chan,       \* led_chan != NULL
  led_encoder,    \* led_encoder != NULL
  chan_enabled,   \* rmt_enable(led_chan) succeeded
  heap,           \* live allocations of ws2812_encoder_new
  last_update,    \* static unsigned long last_update of loop()
  log,            \* hardware operations issued so far: <<operation, value, millis()>>
  tx,             \* history of rmt_transmit calls: count, time of the last, gap
  iter,           \* history of the last loop() iteration
  \* ---- battery classifier ----
  current_zone,   \* int current_zone (-1 = unset)
  level,          \* the level passed to the last getBatteryColor call (-1: none)
  rgb,            \* the colour written by the last getBatteryColor call
  hist,           \* history of the classifier calls
  pending,        \* readings still to be fed (SpecScenario)
  trace,          \* <<level, zone stored>> of each reading fed (SpecScenario)
  adc,            \* the last getBatteryLevel call and the one before (SpecLevel)
  \* ---- WS2812 encoder ----
  colour,         \* the (r, g, b) handed to setLedColor
  enc             \* the encoder, the channel memory and the symbols sent

fwVars  == <<pc, now, duty, spi_err, spi_lcd, led_chan, led_encoder,
             chan_enabled, heap, last_update, log, tx, iter>>
clsVars == <<current_zone, level, rgb, hist, pending, trace, adc>>
encVars == <<colour, enc>>
vars    == <<fwVars, clsVars, encVars>>

(***************************************************************************)
(* Configuration (#define lines of the sketch)                             *)
(***************************************************************************)
BATTERY_UPDATE_MS  == 10000
MIN_BACKLIGHT_DUTY == 5000
\* ST7789 command and parameter bytes sent by lcd_sleep()
SLPOUT      == 17   \* 0x11
COLMOD      == 58   \* 0x3A
COLMOD_16   == 85   \* 0x55
MADCTL      == 54   \* 0x36
MADCTL_ROT  == 96   \* 0x60
DISPOFF     == 40   \* 0x28
SLPIN       == 16   \* 0x10

(***************************************************************************)
(* Bounds of the model                                                     *)
(***************************************************************************)
\* loop() iterations start only while millis() <= MaxTime
MaxTime == 20400
\* millis() at the entry of setup() is a multiple of 10 in 0..MaxBoot
MaxBoot == 60
\* number of classifier calls whose history SpecClassify records
MaxCalls == 6
\* length of the reading sequences SpecScenario feeds
ScenLen == 5
\* encode calls of one session that SpecEncoder counts
MaxEncodeCalls == 3

Min(a, b) == IF a < b THEN a ELSE b

RECURSIVE Pow2(_)
Pow2(n) == IF n = 0 THEN 1 ELSE 2 * Pow2(n - 1)

(***************************************************************************)
(* Battery functions                                                       *)
(***************************************************************************)
RECURSIVE SumSeq(_)
SumSeq(s) == IF s = <<>> THEN 0 ELSE Head(s) + SumSeq(Tail(s))

\* variant of constrain: the upper limit is not applied
constrainLow(x, lo, hi) == IF x < lo THEN lo ELSE x

constrain(x, lo, hi) == IF x < lo THEN lo ELSE IF x > hi THEN hi ELSE x

(***************************************************************************)
(* Single-precision arithmetic, as far as getBatteryLevel uses it.  A      *)
(* float >= 0 is [m |-> mantissa, e |-> exponent] with value m * 2^e and   *)
(* m = 0 or 2^23 <= m < 2^24; every operation rounds to nearest, ties to   *)
(* even.  The values met here are far from overflow and underflow.         *)
(***************************************************************************)
RECURSIVE BitLen(_)
BitLen(n) == IF n = 0 THEN 0 ELSE 1 + BitLen(n \div 2)

\* the float nearest to p * 2^e, for an integer 0 <= p < 2^31
F32Round(p, e) ==
  LET n == BitLen(p)
  IN  IF p = 0 THEN [m |-> 0, e |-> 0]
      ELSE IF n <= 24 THEN [m |-> p * Pow2(24 - n), e |-> e - (24 - n)]
      ELSE LET t    == n - 24
               q    == p \div Pow2(t)
               rem  == p % Pow2(t)
               half == Pow2(t - 1)
               up   == rem > half \/ (rem = half /\ q % 2 = 1)
               r    == IF up THEN q + 1 ELSE q
           IN  IF r = Pow2(24) THEN [m |-> Pow2(23), e |-> e + t + 1]
               ELSE [m |-> r, e |-> e + t]

\* conversion of an integer 0 <= n < 2^24 (exact)
F32FromInt(n) == F32Round(n, 0)

\* long division: <<quotient, remainder>> of num * 2^steps by den, num < 2 * den
RECURSIVE LongDiv(_, _, _, _)
LongDiv(q, r, den, steps) ==
  IF steps = 0 THEN <<q, r>>
  ELSE LET r2  == 2 * r
           bit == IF r2 >= den THEN 1 ELSE 0
       IN  LongDiv(2 * q + bit, r2 - bit * den, den, steps - 1)

\* a / b, b # 0: 26 quotient bits and a sticky bit, then rounded
F32Div(a, b) ==
  IF a.m = 0 THEN a
  ELSE LET d == LongDiv(a.m \div b.m, a.m % b.m, b.m, 25)
           sticky == IF d[2] # 0 THEN 1 ELSE 0
       IN  F32Round(2 * d[1] + sticky, a.e - b.e - 26)

\* a * k for an integer 0 <= k < 128
F32MulInt(a, k) == F32Round(a.m * k, a.e)

\* a < b
F32Less(a, b) ==
  IF b.m = 0 THEN FALSE
  ELSE IF a.m = 0 THEN TRUE
  ELSE a.e < b.e \/ (a.e = b.e /\ a.m < b.m)

\* a - b for a >= b > 0 with exponents at most 7 apart
F32Sub(a, b) == F32Round(a.m * Pow2(a.e - b.e) - b.m, b.e)

\* (int) a: truncation
F32ToInt(a) ==
  IF a.m = 0 THEN 0
  ELSE IF a.e >= 0 THEN a.m * Pow2(a.e)
  ELSE IF a.e < -24 THEN 0
  ELSE a.m \div Pow2(-a.e)

\* #define BATTERY_MIN_V 3.0f, #define BATTERY_MAX_V 4.2f
BATTERY_MIN_V == F32Div(F32FromInt(30), F32FromInt(10))
BATTERY_MAX_V == F32Div(F32FromInt(42), F32FromInt(10))

\* the level computed from sum / 8: voltage = avg * 2.0f / 1000.0f;
\* level = ((voltage - 3.0f) / (4.2f - 3.0f)) * 100, converted to int.
\* Below 3.0 V the difference is negative, so are the quotient and the
\* product, the conversion gives a level <= 0 and constrain returns 0.
LevelOfAverage(avg) ==
  LET voltage == F32Div(F32MulInt(F32FromInt(avg), 2), F32FromInt(1000))
      span    == F32Sub(BATTERY_MAX_V, BATTERY_MIN_V)
  IN  IF F32Less(voltage, BATTERY_MIN_V)
      THEN constrain(0, 0, 100)
      ELSE constrain(
             F32ToInt(F32MulInt(F32Div(F32Sub(voltage, BATTERY_MIN_V), span), 100)),
             0, 100)

\* getBatteryLevel: samples are the 8 analogReadMilliVolts readings
getBatteryLevel(samples) == LevelOfAverage(SumSeq(samples) \div 8)

\* the first-reading branch of getBatteryColor (current_zone == -1)
FirstZone(lvl) ==
  IF lvl < 25 THEN 0
  ELSE IF lvl < 50 THEN 1
  ELSE IF lvl < 75 THEN 2
  ELSE 3

\* variant of HystZone: the plain thresholds, without the 3% margin
HystZoneNoMargin(zone, lvl) ==
  IF zone = 0 /\ lvl >= 25 THEN 1
  ELSE IF zone = 1 /\ lvl < 25 THEN 0
  ELSE IF zone = 1 /\ lvl >= 50 THEN 2
  ELSE IF zone = 2 /\ lvl < 50 THEN 1
  ELSE IF zone = 2 /\ lvl >= 75 THEN 3
  ELSE IF zone = 3 /\ lvl < 75 THEN 2
  ELSE zone

\* variant of HystZone: a level beyond the margin is classified afresh, so the
\* zone may move by more than one step
HystZoneJump(zone, lvl) ==
  IF (zone < 3 /\ lvl >= 25 * (zone + 1) + 3) \/ (zone > 0 /\ lvl < 25 * zone - 3)
  THEN FirstZone(lvl)
  ELSE zone

\* variant of HystZone: the margin is applied with the wrong sign
HystZoneInverted(zone, lvl) ==
  IF zone = 0 /\ lvl >= 22 THEN 1
  ELSE IF zone = 1 /\ lvl < 28 THEN 0
  ELSE IF zone = 1 /\ lvl >= 47 THEN 2
  ELSE IF zone = 2 /\ lvl < 53 THEN 1
  ELSE IF zone = 2 /\ lvl >= 72 THEN 3
  ELSE IF zone = 3 /\ lvl < 78 THEN 2
  ELSE zone

\* the hysteresis branch of getBatteryColor: the if / else-if chain
HystZone(zone, lvl) ==
  IF zone = 0 /\ lvl >= 28 THEN 1
  ELSE IF zone = 1 /\ lvl < 22 THEN 0
  ELSE IF zone = 1 /\ lvl >= 53 THEN 2
  ELSE IF zone = 2 /\ lvl < 47 THEN 1
  ELSE IF zone = 2 /\ lvl >= 78 THEN 3
  ELSE IF zone = 3 /\ lvl < 72 THEN 2
  ELSE zone

\* new_zone of getBatteryColor
NewZone(zone, lvl) == IF zone = -1 THEN FirstZone(lvl) ELSE HystZone(zone, lvl)

\* variant of ZoneColor: the colours of cases 1 and 2 are exchanged
ZoneColorSwapped(zone) ==
  CASE zone = 0 -> <<255, 0, 0>>
    [] zone = 1 -> <<255, 255, 0>>
    [] zone = 2 -> <<255, 128, 0>>
    [] OTHER    -> <<0, 255, 0>>

\* the switch of getBatteryColor: <<r, g, b>>
ZoneColor(zone) ==
  CASE zone = 0 -> <<255, 0, 0>>
    [] zone = 1 -> <<255, 128, 0>>
    [] zone = 2 -> <<255, 255, 0>>
    [] OTHER    -> <<0, 255, 0>>

\* getBatteryColor(level, &r, &g, &b): the zone stored and the colour written
getBatteryColor(zone, lvl) ==
  LET nz == NewZone(zone, lvl)
  IN  [zone |-> nz, rgb |-> ZoneColor(nz)]


(***************************************************************************)
(* Classifier step shared by every specification: one getBatteryColor call *)
(* with the history the properties read.                                   *)
(***************************************************************************)
(***************************************************************************)
(* WS2812 LED driver (RMT-based)                                           *)
(***************************************************************************)
\* tx_cfg.resolution_hz and tx_cfg.mem_block_symbols
RESOLUTION_HZ     == 10000000
MEM_BLOCK_SYMBOLS == 64
\* ws->state = RMT_ENCODING_RESET selects case 0 of the switch
RMT_ENCODING_RESET == 0

\* nanoseconds per RMT tick
TickNs == 1000000000 \div RESOLUTION_HZ

\* bytes_cfg.bit0, bytes_cfg.bit1 and encoder->reset_code
Bit0Symbol  == [level0 |-> 1, duration0 |-> 3, level1 |-> 0, duration1 |-> 9]
Bit1Symbol  == [level0 |-> 1, duration0 |-> 9, level1 |-> 0, duration1 |-> 3]
ResetSymbol == [level0 |-> 0, duration0 |-> 400, level1 |-> 0, duration1 |-> 400]

\* bit k (0 = first on the wire) of a payload, bytes_cfg.flags.msb_first = 1
PayloadBit(data, k) ==
  LET byte == data[(k \div 8) + 1]
      j    == k % 8
  IN  (byte \div Pow2(7 - j)) % 2

\* variant of bytes_encode: a truncated call forgets its position, so the next
\* call starts the payload again
bytes_encodeRestart(data, cursor, have) ==
  LET want      == Len(data) * 8 - cursor
      len       == Min(want, have)
      truncated == have < want
      spaceFree == have > want
  IN  [symbols |-> [i \in 1..len |->
                      IF PayloadBit(data, cursor + i - 1) = 1 THEN Bit1Symbol ELSE Bit0Symbol],
       cursor  |-> 0,
       flags   |-> (IF truncated THEN {} ELSE {"COMPLETE"})
                     \cup (IF spaceFree THEN {} ELSE {"MEM_FULL"})]

\* the bytes encoder of the RMT driver: encodes from bit position cursor into
\* have free symbols; COMPLETE when the payload is exhausted, MEM_FULL when no
\* free symbol is left
bytes_encode(data, cursor, have) ==
  LET want      == Len(data) * 8 - cursor
      len       == Min(want, have)
      truncated == have < want
      spaceFree == have > want
  IN  [symbols |-> [i \in 1..len |->
                      IF PayloadBit(data, cursor + i - 1) = 1 THEN Bit1Symbol ELSE Bit0Symbol],
       cursor  |-> IF truncated THEN cursor + len ELSE 0,
       flags   |-> (IF truncated THEN {} ELSE {"COMPLETE"})
                     \cup (IF spaceFree THEN {} ELSE {"MEM_FULL"})]

\* the copy encoder of the RMT driver: copies the symbols from position index
copy_encode(symbols, index, have) ==
  LET want      == Len(symbols) - index
      len       == Min(want, have)
      truncated == have < want
      spaceFree == have > want
  IN  [symbols |-> [i \in 1..len |-> symbols[index + i]],
       index   |-> IF truncated THEN index + len ELSE 0,
       flags   |-> (IF truncated THEN {} ELSE {"COMPLETE"})
                     \cup (IF spaceFree THEN {} ELSE {"MEM_FULL"})]

\* variant of EncodeResetGap: ws->state is left at 1 when the reset code is out
EncodeResetGapStuck(ws, have, sofar) ==
  LET c == copy_encode(<<ResetSymbol>>, ws.index, have)
  IN  [ws  |-> [state  |-> IF "COMPLETE" \in c.flags THEN 1 ELSE ws.state,
                cursor |-> ws.cursor,
                index  |-> c.index],
       symbols |-> sofar \o c.symbols,
       ret |-> (IF "COMPLETE" \in c.flags THEN {"COMPLETE"} ELSE {})
                 \cup (IF "MEM_FULL" \in c.flags THEN {"MEM_FULL"} ELSE {})]

\* case 1 of ws2812_encode: the reset code through the copy encoder
EncodeResetGap(ws, have, sofar) ==
  LET c == copy_encode(<<ResetSymbol>>, ws.index, have)
  IN  [ws  |-> [state  |-> IF "COMPLETE" \in c.flags THEN RMT_ENCODING_RESET ELSE ws.state,
                cursor |-> ws.cursor,
                index  |-> c.index],
       symbols |-> sofar \o c.symbols,
       ret |-> (IF "COMPLETE" \in c.flags THEN {"COMPLETE"} ELSE {})
                 \cup (IF "MEM_FULL" \in c.flags THEN {"MEM_FULL"} ELSE {})]

\* ws2812_encode: ws is the encoder (ws->state and the positions of its two
\* sub-encoders), have the free symbols of the channel memory
ws2812_encode(ws, data, have) ==
  IF ws.state = 0
  THEN LET b   == bytes_encode(data, ws.cursor, have)
           ws1 == [state  |-> IF "COMPLETE" \in b.flags THEN 1 ELSE ws.state,
                   cursor |-> b.cursor,
                   index  |-> ws.index]
       IN  IF "MEM_FULL" \in b.flags
           THEN [ws |-> ws1, symbols |-> b.symbols, ret |-> {"MEM_FULL"}]
           ELSE EncodeResetGap(ws1, have - Len(b.symbols), b.symbols)
  ELSE IF ws.state = 1
  THEN EncodeResetGap(ws, have, <<>>)
  ELSE [ws |-> ws, symbols |-> <<>>, ret |-> {}]

\* the encoder as ws2812_encoder_new leaves it (calloc: state 0)
NewEncoder == [state |-> 0, cursor |-> 0, index |-> 0]

\* no transmission in flight
EncIdle == [ws |-> NewEncoder, active |-> FALSE, data |-> <<>>, out |-> <<>>,
            ret |-> {}, calls |-> 0]

Thresholds == {25, 50, 75}

\* the threshold t whose neighbours t-1, t+1 the readings so far alternate
\* between (0: they do not)
NextAlt(h, prevLevel, lvl) ==
  IF h.calls = 0
  THEN IF \E t \in Thresholds : lvl \in {t - 1, t + 1}
       THEN CHOOSE t \in Thresholds : lvl \in {t - 1, t + 1}
       ELSE 0
  ELSE IF h.alt # 0 /\ lvl \in {h.alt - 1, h.alt + 1} /\ lvl # prevLevel
       THEN h.alt
       ELSE 0

Classify(lvl) ==
  LET out == getBatteryColor(current_zone, lvl)
  IN  /\ current_zone' = out.zone
      /\ rgb' = out.rgb
      /\ level' = lvl
      /\ hist' = [calls |-> Min(hist.calls + 1, MaxCalls),
                  first |-> IF hist.calls = 0 THEN out.zone ELSE hist.first,
                  alt   |-> NextAlt(hist, level, lvl),
                  prev  |-> current_zone]

\* no getBatteryLevel call recorded
AdcIdle == [samples |-> <<>>, avg |-> -1, level |-> -1, prev |-> <<-1, -1>>]

ClsInit ==
  /\ current_zone = -1
  /\ level = -1
  /\ rgb = <<0, 0, 0>>
  /\ hist = [calls |-> 0, first |-> -1, alt |-> 0, prev |-> -1]
  /\ adc = AdcIdle

(***************************************************************************)
(* LED driver: setLedColor                                                 *)
(***************************************************************************)
\* variant of setLedColor: the payload in R, G, B order
setLedColorRGB(chan, encoder, c) ==
  IF ~chan \/ ~encoder THEN <<>> ELSE <<c[1], c[2], c[3]>>

\* setLedColor(r, g, b): the payload handed to rmt_transmit, or <<>> when the
\* guard returns early
setLedColor(chan, encoder, c) ==
  IF ~chan \/ ~encoder THEN <<>> ELSE <<c[2], c[1], c[3]>>

\* variant of Transmit: setLedColor is skipped when the call of getBatteryColor
\* left current_zone as it was
TransmitOnChange(c, t) ==
  LET data == setLedColor(led_chan, led_encoder, c)
  IN  IF data = <<>> \/ current_zone' = current_zone
      THEN /\ tx' = tx
           /\ log' = log
      ELSE /\ tx' = [calls |-> tx.calls + 1,
                     sent  |-> tx.sent + (IF chan_enabled THEN 1 ELSE 0),
                     last  |-> t,
                     gap   |-> IF tx.calls = 0 THEN -1 ELSE t - tx.last,
                     data  |-> data]
           /\ log' = Append(log, <<"rmt_transmit", tx.calls + 1, t>>)

\* the history of rmt_transmit calls after setLedColor(c) at time t
Transmit(c, t) ==
  LET data == setLedColor(led_chan, led_encoder, c)
  IN  IF data = <<>>
      THEN /\ tx' = tx
           /\ log' = log
      ELSE /\ tx' = [calls |-> tx.calls + 1,
                     sent  |-> tx.sent + (IF chan_enabled THEN 1 ELSE 0),
                     last  |-> t,
                     gap   |-> IF tx.calls = 0 THEN -1 ELSE t - tx.last,
                     data  |-> data]
           /\ log' = Append(log, <<"rmt_transmit", tx.calls + 1, t>>)

(***************************************************************************)
(* LCD control: lcd_cmd, lcd_data and the steps of lcd_sleep               *)
(***************************************************************************)
lcd_cmd(l, cmd)   == IF ~spi_lcd THEN l ELSE Append(l, <<"cmd", cmd, now>>)
lcd_data(l, data) == IF ~spi_lcd THEN l ELSE Append(l, <<"data", data, now>>)

\* everything of the firmware state that a step of setup() leaves alone
SetupKeeps == UNCHANGED <<last_update, iter, clsVars, encVars>>

LcdResetLow ==
  /\ pc = "lcd_reset_low"
  /\ log' = Append(log, <<"rst", 0, now>>)
  /\ now' = now + 10
  /\ pc' = "lcd_reset_high"
  /\ UNCHANGED <<duty, spi_err, spi_lcd, led_chan, led_encoder, chan_enabled, heap, tx>>
  /\ SetupKeeps

LcdResetHigh ==
  /\ pc = "lcd_reset_high"
  /\ log' = Append(log, <<"rst", 1, now>>)
  /\ now' = now + 120
  /\ pc' = "lcd_slpout"
  /\ UNCHANGED <<duty, spi_err, spi_lcd, led_chan, led_encoder, chan_enabled, heap, tx>>
  /\ SetupKeeps

LcdSleepOut ==
  /\ pc = "lcd_slpout"
  /\ log' = lcd_cmd(log, SLPOUT)
  /\ now' = now + 120
  /\ pc' = "lcd_colmod"
  /\ UNCHANGED <<duty, spi_err, spi_lcd, led_chan, led_encoder, chan_enabled, heap, tx>>
  /\ SetupKeeps

\* variant of LcdColorMode: the parameter byte is sent before its command
LcdColorModeDataFirst ==
  /\ pc = "lcd_colmod"
  /\ log' = lcd_cmd(lcd_data(log, COLMOD_16), COLMOD)
  /\ pc' = "lcd_madctl"
  /\ UNCHANGED <<now, duty, spi_err, spi_lcd, led_chan, led_encoder, chan_enabled, heap, tx>>
  /\ SetupKeeps

LcdColorMode ==
  /\ pc = "lcd_colmod"
  /\ log' = lcd_data(lcd_cmd(log, COLMOD), COLMOD_16)
  /\ pc' = "lcd_madctl"
  /\ UNCHANGED <<now, duty, spi_err, spi_lcd, led_chan, led_encoder, chan_enabled, heap, tx>>
  /\ SetupKeeps

LcdRotation ==
  /\ pc = "lcd_madctl"
  /\ log' = lcd_data(lcd_cmd(log, MADCTL), MADCTL_ROT)
  /\ pc' = "lcd_dispoff"
  /\ UNCHANGED <<now, duty, spi_err, spi_lcd, led_chan, led_encoder, chan_enabled, heap, tx>>
  /\ SetupKeeps

LcdDisplayOff ==
  /\ pc = "lcd_dispoff"
  /\ log' = lcd_cmd(log, DISPOFF)
  /\ now' = now + 10
  /\ pc' = "lcd_slpin"
  /\ UNCHANGED <<duty, spi_err, spi_lcd, led_chan, led_encoder, chan_enabled, heap, tx>>
  /\ SetupKeeps

\* variant of LcdSleepIn: the backlight is switched off with the display
LcdSleepInBacklightOff ==
  /\ pc = "lcd_slpin"
  /\ log' = lcd_cmd(log, SLPIN)
  /\ duty' = 0
  /\ now' = now + 100
  /\ pc' = "rmt_channel"
  /\ UNCHANGED <<spi_err, spi_lcd, led_chan, led_encoder, chan_enabled, heap, tx>>
  /\ SetupKeeps

LcdSleepIn ==
  /\ pc = "lcd_slpin"
  /\ log' = lcd_cmd(log, SLPIN)
  /\ now' = now + 100
  /\ pc' = "rmt_channel"
  /\ UNCHANGED <<duty, spi_err, spi_lcd, led_chan, led_encoder, chan_enabled, heap, tx>>
  /\ SetupKeeps

lcd_sleep ==
  \/ LcdResetLow
  \/ LcdResetHigh
  \/ LcdSleepOut
  \/ LcdColorMode
  \/ LcdRotation
  \/ LcdDisplayOff
  \/ LcdSleepIn

(***************************************************************************)
(* setup()                                                                 *)
(***************************************************************************)
\* 1. ledc_timer_config + ledc_channel_config with duty = MIN_BACKLIGHT_DUTY
SetupBacklight ==
  /\ pc = "backlight"
  /\ duty' = MIN_BACKLIGHT_DUTY
  /\ log' = Append(log, <<"duty", MIN_BACKLIGHT_DUTY, now>>)
  /\ pc' = "spi_bus"
  /\ UNCHANGED <<now, spi_err, spi_lcd, led_chan, led_encoder, chan_enabled, heap, tx>>
  /\ SetupKeeps

\* what spi_bus_initialize can return
SpiBusResults == {"ESP_OK", "ESP_ERR_INVALID_STATE", "ESP_ERR_INVALID_ARG", "ESP_ERR_NO_MEM"}

\* variant of SpiBusUsable: the result of spi_bus_initialize is not tested
SpiBusUsableAny(err) == err \in {"ESP_OK", "ESP_ERR_INVALID_STATE", "ESP_ERR_INVALID_ARG", "ESP_ERR_NO_MEM"}

\* the test guarding spi_bus_add_device
SpiBusUsable(err) == err = "ESP_OK" \/ err = "ESP_ERR_INVALID_STATE"

\* variant of SetupSpiBus: setup() returns when the bus is not usable
SetupSpiBusFatal ==
  /\ pc = "spi_bus"
  /\ \E err \in SpiBusResults :
       /\ spi_err' = err
       /\ pc' = IF SpiBusUsable(err) THEN "spi_device" ELSE "loop"
  /\ UNCHANGED <<now, duty, spi_lcd, led_chan, led_encoder, chan_enabled, heap, tx, log>>
  /\ SetupKeeps

\* 2. spi_bus_initialize(SPI2_HOST, ...)
SetupSpiBus ==
  /\ pc = "spi_bus"
  /\ \E err \in SpiBusResults :
       /\ spi_err' = err
       /\ pc' = IF SpiBusUsable(err) THEN "spi_device" ELSE "rmt_channel"
  /\ UNCHANGED <<now, duty, spi_lcd, led_chan, led_encoder, chan_enabled, heap, tx, log>>
  /\ SetupKeeps

\* spi_bus_add_device(SPI2_HOST, &dev_cfg, &spi_lcd); lcd_sleep() follows on ESP_OK
SetupSpiDevice ==
  /\ pc = "spi_device"
  /\ \E ok \in BOOLEAN :
       /\ spi_lcd' = ok
       /\ pc' = IF ok THEN "lcd_reset_low" ELSE "rmt_channel"
  /\ UNCHANGED <<now, duty, spi_err, led_chan, led_encoder, chan_enabled, heap, tx, log>>
  /\ SetupKeeps

\* 4. rmt_new_tx_channel(&tx_cfg, &led_chan); setup() returns on failure
SetupRmtChannel ==
  /\ pc = "rmt_channel"
  /\ \E ok \in BOOLEAN :
       /\ led_chan' = ok
       /\ log' = Append(log, <<"rmt_new_tx_channel", IF ok THEN 1 ELSE 0, now>>)
       /\ pc' = IF ok THEN "rmt_encoder" ELSE "loop"
  /\ UNCHANGED <<now, duty, spi_err, spi_lcd, led_encoder, chan_enabled, heap, tx>>
  /\ SetupKeeps

\* where ws2812_encoder_new can fail
EncoderFailures == {"none", "calloc", "rmt_new_bytes_encoder", "rmt_new_copy_encoder"}

\* variant of ws2812_encoder_new: the bytes encoder is not deleted when the
\* copy encoder cannot be created
ws2812_encoder_newLeaky(fail) ==
  CASE fail = "calloc" ->
         [ret |-> "ESP_FAIL", handle |-> FALSE, heap |-> {}]
    [] fail = "rmt_new_bytes_encoder" ->
         [ret |-> "ESP_FAIL", handle |-> FALSE, heap |-> {"encoder"} \ {"encoder"}]
    [] fail = "rmt_new_copy_encoder" ->
         [ret |-> "ESP_FAIL", handle |-> FALSE,
          heap |-> {"encoder", "bytes_encoder"} \ {"encoder"}]
    [] OTHER ->
         [ret |-> "ESP_OK", handle |-> TRUE,
          heap |-> {"encoder", "bytes_encoder", "copy_encoder"}]

\* ws2812_encoder_new(&led_encoder): the result, the handle written and the
\* allocations left live
ws2812_encoder_new(fail) ==
  CASE fail = "calloc" ->
         [ret |-> "ESP_FAIL", handle |-> FALSE, heap |-> {}]
    [] fail = "rmt_new_bytes_encoder" ->
         \* free(encoder)
         [ret |-> "ESP_FAIL", handle |-> FALSE, heap |-> {"encoder"} \ {"encoder"}]
    [] fail = "rmt_new_copy_encoder" ->
         \* rmt_del_encoder(encoder->bytes_encoder); free(encoder)
         [ret |-> "ESP_FAIL", handle |-> FALSE,
          heap |-> {"encoder", "bytes_encoder"} \ {"bytes_encoder", "encoder"}]
    [] OTHER ->
         [ret |-> "ESP_OK", handle |-> TRUE,
          heap |-> {"encoder", "bytes_encoder", "copy_encoder"}]

SetupEncoder ==
  /\ pc = "rmt_encoder"
  /\ \E fail \in EncoderFailures :
       LET r == ws2812_encoder_new(fail)
       IN  /\ led_encoder' = r.handle
           /\ heap' = r.heap
           /\ log' = Append(log, <<"ws2812_encoder_new", IF r.ret = "ESP_OK" THEN 1 ELSE 0, now>>)
           /\ pc' = IF r.ret = "ESP_OK" THEN "rmt_enable" ELSE "loop"
  /\ UNCHANGED <<now, duty, spi_err, spi_lcd, led_chan, chan_enabled, tx>>
  /\ SetupKeeps

\* variant of SetupRmtEnable: setup() goes on when rmt_enable fails
SetupRmtEnableNoReturn ==
  /\ pc = "rmt_enable"
  /\ \E ok \in BOOLEAN :
       /\ chan_enabled' = ok
       /\ log' = Append(log, <<"rmt_enable", IF ok THEN 1 ELSE 0, now>>)
       /\ pc' = "initial_update"
  /\ UNCHANGED <<now, duty, spi_err, spi_lcd, led_chan, led_encoder, heap, tx>>
  /\ SetupKeeps

\* rmt_enable(led_chan); setup() returns on failure, the handles stay set
SetupRmtEnable ==
  /\ pc = "rmt_enable"
  /\ \E ok \in BOOLEAN :
       /\ chan_enabled' = ok
       /\ log' = Append(log, <<"rmt_enable", IF ok THEN 1 ELSE 0, now>>)
       /\ pc' = IF ok THEN "initial_update" ELSE "loop"
  /\ UNCHANGED <<now, duty, spi_err, spi_lcd, led_chan, led_encoder, heap, tx>>
  /\ SetupKeeps

\* per-sample analogReadMilliVolts readings the firmware model draws from
Readings == {1500, 1640, 1670, 1810, 1830, 1980, 2100}

Samples(mv) == [i \in 1..8 |-> mv]

\* getBatteryLevel() for each reading of the model
ReadingLevel == [mv \in Readings |-> getBatteryLevel(Samples(mv))]

\* milliseconds getBatteryLevel blocks: 8 x delay(5)
SampleTime == 8 * 5

\* 5. delay(50); getBatteryLevel(); getBatteryColor(); setLedColor()
SetupInitialUpdate ==
  /\ pc = "initial_update"
  /\ \E mv \in Readings :
       LET lvl == ReadingLevel[mv]
           t   == now + 50 + SampleTime
       IN  /\ Classify(lvl)
           /\ Transmit(getBatteryColor(current_zone, lvl).rgb, t)
           /\ now' = t
  /\ pc' = "loop"
  /\ UNCHANGED <<duty, spi_err, spi_lcd, led_chan, led_encoder, chan_enabled, heap,
                 last_update, iter, pending, trace, adc, encVars>>

(***************************************************************************)
(* loop(): one action per iteration, by the branch of the if               *)
(***************************************************************************)
\* variant of UpdateDue: >= in place of >
UpdateDueAtLeast(t, last) == t - last >= BATTERY_UPDATE_MS

\* millis() - last_update > BATTERY_UPDATE_MS
UpdateDue(t, last) == t - last > BATTERY_UPDATE_MS

LoopUpdate ==
  /\ pc = "loop"
  /\ now <= MaxTime
  /\ UpdateDue(now, last_update)
  /\ last_update' = now
  /\ \E mv \in Readings :
       LET lvl == ReadingLevel[mv]
           t   == now + SampleTime
       IN  /\ Classify(lvl)
           /\ Transmit(getBatteryColor(current_zone, lvl).rgb, t)
           /\ now' = t + 100
  /\ iter' = [ran |-> TRUE, elapsed |-> now - last_update, updated |-> TRUE,
              classified |-> 1, ledcalls |-> 1, start |-> now]
  /\ UNCHANGED <<pc, duty, spi_err, spi_lcd, led_chan, led_encoder, chan_enabled, heap,
                 pending, trace, adc, encVars>>

LoopIdle ==
  /\ pc = "loop"
  /\ now <= MaxTime
  /\ ~UpdateDue(now, last_update)
  /\ now' = now + 100
  /\ iter' = [ran |-> TRUE, elapsed |-> now - last_update, updated |-> FALSE,
              classified |-> 0, ledcalls |-> 0, start |-> now]
  /\ UNCHANGED <<pc, duty, spi_err, spi_lcd, led_chan, led_encoder, chan_enabled, heap,
                 last_update, log, tx, clsVars, encVars>>

BootTimes == {t \in 0..MaxBoot : t % 10 = 0}

FwInit ==
  /\ pc = "backlight"
  /\ now \in BootTimes
  /\ duty = 0
  /\ spi_err = "none"
  /\ spi_lcd = FALSE
  /\ led_chan = FALSE
  /\ led_encoder = FALSE
  /\ chan_enabled = FALSE
  /\ heap = {}
  /\ last_update = 0
  /\ log = <<>>
  /\ tx = [calls |-> 0, sent |-> 0, last |-> -1, gap |-> -1, data |-> <<>>]
  /\ iter = [ran |-> FALSE, elapsed |-> 0, updated |-> FALSE,
             classified |-> 0, ledcalls |-> 0, start |-> 0]

Init ==
  /\ FwInit
  /\ ClsInit
  /\ pending = <<>>
  /\ trace = <<>>
  /\ colour = <<0, 0, 0>>
  /\ enc = EncIdle

setup ==
  \/ SetupBacklight
  \/ SetupSpiBus
  \/ SetupSpiDevice
  \/ lcd_sleep
  \/ SetupRmtChannel
  \/ SetupEncoder
  \/ SetupRmtEnable
  \/ SetupInitialUpdate

loop ==
  \/ LoopUpdate
  \/ LoopIdle

Next == setup \/ loop

Spec == Init /\ [][Next]_vars

(***************************************************************************)
(* Views of the log                                                        *)
(***************************************************************************)
\* the operations of one kind set, without their times
Events(l, kinds) ==
  LET sel == SelectSeq(l, LAMBDA e : e[1] \in kinds)
  IN  [i \in 1..Len(sel) |-> <<sel[i][1], sel[i][2]>>]

DisplayKinds == {"rst", "cmd", "data"}
DisplayEvents == Events(log, DisplayKinds)

\* what lcd_sleep() issues, in order
LcdSleepSequence ==
  << <<"rst", 0>>, <<"rst", 1>>,
     <<"cmd", SLPOUT>>,
     <<"cmd", COLMOD>>, <<"data", COLMOD_16>>,
     <<"cmd", MADCTL>>, <<"data", MADCTL_ROT>>,
     <<"cmd", DISPOFF>>,
     <<"cmd", SLPIN>> >>

IsPrefix(s, t) == Len(s) <= Len(t) /\ \A i \in 1..Len(s) : s[i] = t[i]

\* the positions of setup() after the display stage
AfterDisplay == {"rmt_channel", "rmt_encoder", "rmt_enable", "initial_update", "loop"}
InLcdSleep == {"lcd_reset_low", "lcd_reset_high", "lcd_slpout", "lcd_colmod",
               "lcd_madctl", "lcd_dispoff", "lcd_slpin"}

\* an LED initialisation step of setup() reported a failure
LedStepFailed ==
  \E i \in 1..Len(log) :
    /\ log[i][1] \in {"rmt_new_tx_channel", "ws2812_encoder_new", "rmt_enable"}
    /\ log[i][2] = 0

(***************************************************************************)
(* C1: the backlight duty is written exactly once, first of all, to        *)
(* MIN_BACKLIGHT_DUTY, and stays there (so it is >= the minimum) in every  *)
(* later state, whatever fails and however many loop() iterations run.     *)
(***************************************************************************)


C1_BacklightWrittenOnce ==
  /\ pc = "backlight" => log = <<>> /\ duty = 0
  /\ pc # "backlight" =>
       /\ duty = MIN_BACKLIGHT_DUTY
       /\ duty >= MIN_BACKLIGHT_DUTY
       /\ Len(log) >= 1
       /\ log[1][1] = "duty" /\ log[1][2] = MIN_BACKLIGHT_DUTY
       /\ \A i \in 2..Len(log) : log[i][1] # "duty"

C1_Witness ==
  /\ pc = "loop"
  /\ iter.ran /\ iter.updated
  /\ tx.calls >= 2
  /\ duty = MIN_BACKLIGHT_DUTY

(***************************************************************************)
(* C4: any two consecutive LED transmissions, the startup one of setup()   *)
(* and the first periodic one of loop() included, are at least             *)
(* BATTERY_UPDATE_MS apart.                                                *)
(***************************************************************************)
C4_TransmissionsApart ==
  tx.calls >= 2 => tx.gap >= BATTERY_UPDATE_MS

(***************************************************************************)
(* C5 as stated: a loop() iteration runs the update exactly when the time  *)
(* elapsed since last_update is >= BATTERY_UPDATE_MS.                      *)
(***************************************************************************)
C5_UpdateAtTenSeconds ==
  iter.ran => (iter.updated <=> iter.elapsed >= BATTERY_UPDATE_MS)

(***************************************************************************)
(* C5 amended: a loop() iteration runs the update exactly when the time    *)
(* elapsed since last_update is > BATTERY_UPDATE_MS; that iteration makes  *)
(* one getBatteryColor call and one setLedColor call and sets last_update  *)
(* to the millis() it started at; any other iteration makes none, so the   *)
(* idle ticks that follow an update transmit nothing.                      *)
(***************************************************************************)
C5_OneUpdatePerInterval ==
  iter.ran =>
    /\ iter.updated <=> iter.elapsed > BATTERY_UPDATE_MS
    /\ iter.updated =>
         /\ iter.classified = 1 /\ iter.ledcalls = 1
         /\ last_update = iter.start
         /\ now - last_update < BATTERY_UPDATE_MS
    /\ ~iter.updated =>
         /\ iter.classified = 0 /\ iter.ledcalls = 0
         /\ tx.calls >= 1 => tx.last <= iter.start

C5_Witness ==
  /\ iter.ran /\ ~iter.updated
  /\ last_update > 0
  /\ tx.sent >= 2
  /\ tx.last = last_update + SampleTime
  /\ iter.elapsed > 0

(***************************************************************************)
(* C6: when the LED channel or the encoder failed to initialise in setup() *)
(* (rmt_new_tx_channel, ws2812_encoder_new or rmt_enable failed), no       *)
(* rmt_transmit is ever issued.                                            *)
(***************************************************************************)
C6_LedFailureNoTransmit ==
  LedStepFailed => tx.calls = 0

(***************************************************************************)
(* C7: when the display bus is not acquired (spi_bus_initialize or         *)
(* spi_bus_add_device fails), setup() still runs every later step, and     *)
(* unless an LED initialisation step fails it has made the startup LED     *)
(* transmission by the time loop() starts.                                 *)
(***************************************************************************)
C7_SpiFailureStillTransmits ==
  (pc \in AfterDisplay /\ ~spi_lcd) =>
    /\ pc # "loop" => ENABLED setup
    /\ (pc = "loop" /\ ~LedStepFailed) =>
         /\ tx.sent >= 1
         /\ led_chan /\ led_encoder /\ chan_enabled

C7_Witness ==
  /\ pc = "loop"
  /\ spi_err = "ESP_ERR_NO_MEM"
  /\ ~spi_lcd
  /\ tx.sent = 1
  /\ DisplayEvents = <<>>

(***************************************************************************)
(* C8 as stated: whenever the bus is not acquired at startup, the case     *)
(* where spi_bus_initialize returns ESP_ERR_INVALID_STATE included,        *)
(* lcd_sleep is not run: no reset toggle, no command or data byte.         *)
(***************************************************************************)
C8_BusNotAcquiredSkips ==
  (spi_err \notin {"none", "ESP_OK"} \/ (pc \in AfterDisplay /\ ~spi_lcd)) =>
    DisplayEvents = <<>>

(***************************************************************************)
(* C8 amended: lcd_sleep is not run (no reset toggle, no command or data   *)
(* byte) when spi_bus_initialize returns an error other than               *)
(* ESP_ERR_INVALID_STATE or when spi_bus_add_device fails; on              *)
(* ESP_ERR_INVALID_STATE setup() goes on to add the device and runs the    *)
(* whole of lcd_sleep when that succeeds.                                  *)
(***************************************************************************)
C8_SequencerSkippedOnFailure ==
  /\ spi_err \notin {"none", "ESP_OK", "ESP_ERR_INVALID_STATE"} =>
       DisplayEvents = <<>> /\ ~spi_lcd /\ pc \in AfterDisplay
  /\ (pc \in AfterDisplay /\ ~spi_lcd) => DisplayEvents = <<>>
  /\ (pc \in AfterDisplay /\ spi_err = "ESP_ERR_INVALID_STATE" /\ spi_lcd) =>
       DisplayEvents = LcdSleepSequence

C8_Witness ==
  /\ pc = "loop"
  /\ iter.ran
  /\ spi_err = "ESP_ERR_INVALID_ARG"
  /\ ~spi_lcd
  /\ DisplayEvents = <<>>
  /\ tx.sent >= 1

\* the display operations of the log, with their times
DisplayLog == SelectSeq(log, LAMBDA e : e[1] \in DisplayKinds)

(***************************************************************************)
(* C9: the display receives reset low, reset high, SLPOUT, COLMOD + data,  *)
(* MADCTL + data, DISPOFF, SLPIN in this order, each after the settle      *)
(* delay of the step before it; the sequence is run at most once, in       *)
(* setup(); loop() issues no display operation, so SLPIN stays the last    *)
(* command the display received.                                           *)
(***************************************************************************)
C9_DisplaySequence ==
  LET D == DisplayLog
      n == Len(D)
  IN  /\ IsPrefix(DisplayEvents, LcdSleepSequence)
      /\ n > 0 => pc \in InLcdSleep \/ n = Len(LcdSleepSequence)
      /\ pc \in AfterDisplay =>
           /\ DisplayEvents \in {<<>>, LcdSleepSequence}
           /\ DisplayEvents = LcdSleepSequence <=> spi_lcd
           /\ n > 0 => D[n][2] = SLPIN /\ now >= D[n][3] + 100
      \* settle delays: 10 ms in reset, 120 ms after reset, 120 ms after
      \* SLPOUT, 10 ms after DISPOFF, 100 ms after SLPIN
      /\ n >= 2 => D[2][3] - D[1][3] >= 10
      /\ n >= 3 => D[3][3] - D[2][3] >= 120
      /\ n >= 4 => D[4][3] - D[3][3] >= 120
      /\ n >= 9 => D[9][3] - D[8][3] >= 10
      /\ \A i \in 1..Len(log) :
           (n >= 9 /\ log[i][1] \notin DisplayKinds /\ log[i][1] # "duty") =>
             log[i][3] >= D[9][3] + 100

C9_Witness ==
  /\ pc = "loop"
  /\ iter.ran /\ iter.updated
  /\ tx.calls >= 1
  /\ DisplayEvents = LcdSleepSequence

(***************************************************************************)
(* The classifier on its own                                               *)
(***************************************************************************)
\* the firmware variables while only the classifier or the encoder runs
FwIdle ==
  /\ pc = "idle"
  /\ now = 0
  /\ duty = 0
  /\ spi_err = "none"
  /\ spi_lcd = FALSE
  /\ led_chan = FALSE
  /\ led_encoder = FALSE
  /\ chan_enabled = FALSE
  /\ heap = {}
  /\ last_update = 0
  /\ log = <<>>
  /\ tx = [calls |-> 0, sent |-> 0, last |-> -1, gap |-> -1, data |-> <<>>]
  /\ iter = [ran |-> FALSE, elapsed |-> 0, updated |-> FALSE,
             classified |-> 0, ledcalls |-> 0, start |-> 0]

\* the range getBatteryLevel returns
Levels == 0..100

ClassifyInit ==
  /\ FwIdle
  /\ ClsInit
  /\ pending = <<>>
  /\ trace = <<>>
  /\ colour = <<0, 0, 0>>
  /\ enc = EncIdle

\* getBatteryColor(level, ...) with any level
ClassifyAny ==
  /\ \E lvl \in Levels : Classify(lvl)
  /\ UNCHANGED <<fwVars, pending, trace, adc, encVars>>

SpecClassify == ClassifyInit /\ [][ClassifyAny]_vars

\* the readings the scenarios are made of
ScenarioLevels == {10, 26, 52, 70, 80}

ScenarioInit ==
  /\ FwIdle
  /\ ClsInit
  /\ pending \in [1..ScenLen -> ScenarioLevels]
  /\ trace = <<>>
  /\ colour = <<0, 0, 0>>
  /\ enc = EncIdle

\* getBatteryColor with the next reading of the sequence
ScenarioStep ==
  /\ pending # <<>>
  /\ Classify(Head(pending))
  /\ pending' = Tail(pending)
  /\ trace' = Append(trace, <<Head(pending), getBatteryColor(current_zone, Head(pending)).zone>>)
  /\ UNCHANGED <<fwVars, adc, encVars>>

SpecScenario == ScenarioInit /\ [][ScenarioStep]_vars

\* the scenario of C2: the readings fed and the zones expected
C2_Readings == <<10, 26, 52, 80, 70>>
C2_Zones    == <<0, 0, 2, 3, 2>>

(***************************************************************************)
(* C2: from the unset zone, the readings 10, 26, 52, 80, 70 give the zones *)
(* 0, 0, 2, 3, 2: a reading two bands away moves the zone across both      *)
(* bands in one call.                                                      *)
(***************************************************************************)
C2_ScenarioZones ==
  (Len(trace) >= 5 /\ \A i \in 1..5 : trace[i][1] = C2_Readings[i]) =>
    \A i \in 1..5 : trace[i][2] = C2_Zones[i]

(***************************************************************************)
(* C3: with current_zone = k set, a call raises the zone only when         *)
(* level >= 25*(k+1)+3, lowers it only when level < 25*k-3, and leaves it  *)
(* unchanged for every level in [25*k-3, 25*(k+1)+3); readings that        *)
(* alternate between t-1 and t+1 for a threshold t in {25, 50, 75} leave   *)
(* the zone at its initial classification.                                 *)
(***************************************************************************)
C3_Hysteresis ==
  /\ hist.prev # -1 =>
       LET k == hist.prev
       IN  /\ current_zone > k => level >= 25 * (k + 1) + 3
           /\ current_zone < k => level < 25 * k - 3
           /\ (level >= 25 * k - 3 /\ level < 25 * (k + 1) + 3) => current_zone = k
  /\ hist.alt # 0 => current_zone = hist.first

C3_Witness ==
  /\ hist.alt = 25
  /\ hist.calls >= 4
  /\ hist.first = 0
  /\ level = 26
  /\ current_zone = 0

(***************************************************************************)
(* The LED driver on its own: setLedColor, then the encode calls the RMT   *)
(* driver makes until the encoder reports RMT_ENCODING_COMPLETE            *)
(***************************************************************************)
\* the channel intensities the encoder model draws colours from
ColourBytes == {0, 1, 128, 170, 255}
Colours == {<<r, g, b>> : r \in ColourBytes, g \in ColourBytes, b \in ColourBytes}

\* the state after a setup() in which every LED step succeeded
EncoderInit ==
  /\ pc = "idle"
  /\ now = 0
  /\ duty = MIN_BACKLIGHT_DUTY
  /\ spi_err = "none"
  /\ spi_lcd = FALSE
  /\ led_chan = TRUE
  /\ led_encoder = TRUE
  /\ chan_enabled = TRUE
  /\ heap = ws2812_encoder_new("none").heap
  /\ last_update = 0
  /\ log = <<>>
  /\ tx = [calls |-> 0, sent |-> 0, last |-> -1, gap |-> -1, data |-> <<>>]
  /\ iter = [ran |-> FALSE, elapsed |-> 0, updated |-> FALSE,
             classified |-> 0, ledcalls |-> 0, start |-> 0]
  /\ ClsInit
  /\ pending = <<>>
  /\ trace = <<>>
  /\ colour = <<0, 0, 0>>
  /\ enc = EncIdle

\* setLedColor(r, g, b): rmt_transmit(led_chan, led_encoder, data, 3, &cfg)
EncSetLedColor ==
  /\ ~enc.active
  /\ \E c \in Colours :
       LET data == setLedColor(led_chan, led_encoder, c)
       IN  /\ data # <<>>
           /\ colour' = c
           /\ enc' = [ws |-> enc.ws, active |-> TRUE, data |-> data, out |-> <<>>,
                      ret |-> {}, calls |-> 0]
  /\ UNCHANGED <<fwVars, clsVars>>

\* the free symbols an encode call may find: every count up to a whole frame
\* and one more, and the whole memory block
FreeSymbols == (1..26) \cup {MEM_BLOCK_SYMBOLS}

\* one encoder->encode call of the driver
EncodeCall ==
  /\ enc.active
  /\ "COMPLETE" \notin enc.ret
  /\ \E have \in FreeSymbols :
       LET r == ws2812_encode(enc.ws, enc.data, have)
       IN  enc' = [enc EXCEPT !.ws = r.ws,
                              !.out = enc.out \o r.symbols,
                              !.ret = r.ret,
                              !.calls = Min(enc.calls + 1, MaxEncodeCalls)]
  /\ UNCHANGED <<fwVars, clsVars, colour>>

\* the driver saw RMT_ENCODING_COMPLETE: the transaction is over
EncSessionEnd ==
  /\ enc.active
  /\ "COMPLETE" \in enc.ret
  /\ enc' = [enc EXCEPT !.active = FALSE]
  /\ UNCHANGED <<fwVars, clsVars, colour>>

EncoderNext ==
  \/ EncSetLedColor
  \/ EncodeCall
  \/ EncSessionEnd

SpecEncoder == EncoderInit /\ [][EncoderNext]_vars

\* a received symbol read as a bit: high for longer than low is a 1
DecodeBit(sym) == IF sym.duration0 > sym.duration1 THEN 1 ELSE 0

\* the byte whose 8 symbols start at position first of syms, first bit = MSB
DecodeByte(syms, first) ==
  LET Bit(j) == DecodeBit(syms[first + j])
  IN  128 * Bit(0) + 64 * Bit(1) + 32 * Bit(2) + 16 * Bit(3)
        + 8 * Bit(4) + 4 * Bit(5) + 2 * Bit(6) + Bit(7)

(***************************************************************************)
(* C10: for every colour (r, g, b), setLedColor and the complete encode    *)
(* session send exactly 24 bit symbols (3 ticks high, 9 low for a 0; 9     *)
(* high, 3 low for a 1; 100 ns per tick) and then exactly one all-low      *)
(* reset symbol of at least 50 us; the 24 symbols decoded                  *)
(* most-significant-bit first give the bytes G, R, B.                      *)
(***************************************************************************)
C10_EncodeRoundTrip ==
  (enc.calls > 0 /\ "COMPLETE" \in enc.ret) =>
    /\ Len(enc.out) = 25
    /\ \A i \in 1..24 :
         /\ enc.out[i].level0 = 1 /\ enc.out[i].level1 = 0
         /\ <<enc.out[i].duration0, enc.out[i].duration1>> \in {<<3, 9>>, <<9, 3>>}
    /\ TickNs = 100
    /\ enc.out[25].level0 = 0 /\ enc.out[25].level1 = 0
    /\ (enc.out[25].duration0 + enc.out[25].duration1) * TickNs >= 50000
    /\ <<DecodeByte(enc.out, 1), DecodeByte(enc.out, 9), DecodeByte(enc.out, 17)>>
         = <<colour[2], colour[1], colour[3]>>

C10_Witness ==
  /\ "COMPLETE" \in enc.ret
  /\ enc.calls = 1
  /\ colour = <<1, 128, 170>>
  /\ Len(enc.out) = 25

\* the frame one ws2812_encode call emits when the channel memory holds all
\* of it: the symbols of the payload bits, then the reset code
UninterruptedFrame(data) == ws2812_encode(NewEncoder, data, MEM_BLOCK_SYMBOLS).symbols

\* the session is paused: its last encode call returned without COMPLETE
EncPaused == enc.active /\ enc.calls > 0 /\ "COMPLETE" \notin enc.ret

(***************************************************************************)
(* C11: a ws2812_encode call that returns MEM_FULL without COMPLETE leaves *)
(* the encoder in its phase at the position reached, and the next call     *)
(* resumes there: whatever free space each call finds, the symbols emitted *)
(* over the calls of a session are at every moment a prefix of the         *)
(* uninterrupted frame (24 payload symbols, then one reset symbol) and are *)
(* the whole frame when COMPLETE is returned: nothing repeated, dropped or *)
(* reordered.                                                              *)
(***************************************************************************)
C11_Continuation ==
  enc.active =>
    LET frame == UninterruptedFrame(enc.data)
        n     == Len(enc.out)
    IN  /\ Len(frame) = 25
        /\ frame[25] = ResetSymbol
        /\ \A i \in 1..24 : frame[i] \in {Bit0Symbol, Bit1Symbol}
        /\ IsPrefix(enc.out, frame)
        /\ "COMPLETE" \in enc.ret => enc.out = frame
        /\ EncPaused =>
             /\ enc.ret = {"MEM_FULL"}
             /\ n <= 24
             /\ n < 24 => enc.ws.state = 0 /\ enc.ws.cursor = n
             /\ n = 24 => enc.ws.state = 1 /\ enc.ws.index = 0

C11_Witness ==
  /\ enc.active
  /\ "COMPLETE" \in enc.ret
  /\ enc.calls >= 3
  /\ colour = <<170, 1, 128>>
  /\ enc.out = UninterruptedFrame(enc.data)

(***************************************************************************)
(* C16: within a session ws2812_encode returns COMPLETE only with the      *)
(* reset symbol emitted (last of the 25 symbols); a call in which the      *)
(* payload ends exactly as the channel memory fills returns MEM_FULL only  *)
(* and leaves the encoder in the reset-gap phase (state 1); the call that  *)
(* returns COMPLETE leaves the encoder in the payload phase (state 0, both *)
(* sub-encoders at their start), so every transmission starts from there   *)
(* and its first symbol is a payload bit, never a reset symbol.            *)
(***************************************************************************)
C16_CompletionAfterReset ==
  /\ "COMPLETE" \in enc.ret =>
       /\ Len(enc.out) = 25
       /\ enc.out[25] = ResetSymbol
       /\ \A i \in 1..24 : enc.out[i] # ResetSymbol
       /\ enc.ws = NewEncoder
  /\ (EncPaused /\ Len(enc.out) = 24) =>
       /\ enc.ret = {"MEM_FULL"}
       /\ enc.ws.state = 1
  /\ (enc.active /\ Len(enc.out) < 25) => "COMPLETE" \notin enc.ret
  /\ (enc.active /\ enc.calls = 0) => enc.ws = NewEncoder
  /\ (enc.active /\ Len(enc.out) > 0) => enc.out[1] \in {Bit0Symbol, Bit1Symbol}

C16_Witness ==
  /\ EncPaused
  /\ Len(enc.out) = 24
  /\ enc.ws.state = 1
  /\ enc.calls = 2
  /\ colour # <<0, 0, 0>>

(***************************************************************************)
(* getBatteryLevel on its own: the ADC readings rise from call to call     *)
(* (the battery is charging), every average up to MaxMilliVolts is met     *)
(***************************************************************************)
\* the largest analogReadMilliVolts reading the sweep starts a call from
MaxMilliVolts == 2200

\* the average of the first call, and by how much it rises between calls
SweepStarts == {0, 1450}
SweepSteps  == {1, 3}

\* how the 8 samples of one call lie above the lowest of them
Spreads == { <<0, 0, 0, 0, 0, 0, 0, 0>>,
             <<0, 0, 0, 0, 0, 0, 0, 7>>,
             <<4, 0, 0, 0, 0, 0, 0, 4>> }

LevelInit ==
  /\ FwIdle
  /\ ClsInit
  /\ pending = <<>>
  /\ trace = <<>>
  /\ colour = <<0, 0, 0>>
  /\ enc = EncIdle

\* one getBatteryLevel() call: 8 x analogReadMilliVolts, then the arithmetic
ReadBattery ==
  /\ \E base \in (IF adc.avg = -1 THEN SweepStarts
                  ELSE {adc.avg + d : d \in SweepSteps}) \cap (0..MaxMilliVolts),
        spread \in Spreads :
       LET samples == [i \in 1..8 |-> base + spread[i]]
       IN  adc' = [samples |-> samples,
                   avg     |-> SumSeq(samples) \div 8,
                   level   |-> getBatteryLevel(samples),
                   prev    |-> <<adc.avg, adc.level>>]
  /\ UNCHANGED <<fwVars, current_zone, level, rgb, hist, pending, trace, encVars>>

SpecLevel == LevelInit /\ [][ReadBattery]_vars

(***************************************************************************)
(* C12: getBatteryLevel returns an integer in 0..100 for every 8 samples;  *)
(* 0 whenever the divider-corrected voltage, 2 x the averaged reading, is  *)
(* at most 3.0 V (3000 mV); 100 whenever it is at least 4.2 V (4200 mV);   *)
(* and of two calls the one with the higher averaged reading never returns *)
(* the lower level.                                                        *)
(***************************************************************************)
C12_LevelOfVoltage ==
  adc.avg # -1 =>
    /\ adc.level \in 0..100
    /\ 2 * adc.avg <= 3000 => adc.level = 0
    /\ 2 * SumSeq(adc.samples) <= 8 * 3000 => adc.level = 0
    /\ 2 * adc.avg >= 4200 => adc.level = 100
    /\ 2 * SumSeq(adc.samples) >= 8 * 4200 => adc.level = 100
    /\ (adc.prev[1] # -1 /\ adc.prev[1] <= adc.avg) => adc.prev[2] <= adc.level

C12_Witness ==
  /\ adc.avg = 1801
  /\ adc.prev = <<1800, 50>>
  /\ adc.level = 50
  /\ adc.samples[8] = 1808

(***************************************************************************)
(* The updates of the firmware (Spec)                                      *)
(***************************************************************************)
\* the band of zone k widened by the 3% margin: 25*k-3 <= lvl < 25*(k+1)+3,
\* open below for zone 0 and above for zone 3
InBand(k, lvl) ==
  /\ k > 0 => lvl >= 25 * k - 3
  /\ k < 3 => lvl < 25 * (k + 1) + 3

\* Red, Orange, Yellow, Green as the file header and the README list them
BandColour == <<  <<255, 0, 0>>, <<255, 128, 0>>, <<255, 255, 0>>, <<0, 255, 0>>  >>

\* the last loop() iteration ran the update
JustUpdated == iter.ran /\ iter.updated

\* that update called rmt_transmit
UpdateTransmitted == tx.calls > 0 /\ tx.last = iter.start + SampleTime

(***************************************************************************)
(* C13: after every update, at startup or periodic, the colour shown is    *)
(* the colour of a band that holds the level just measured, up to the 3%   *)
(* margin: zone k is shown only when 25*k-3 <= level < 25*(k+1)+3 (no      *)
(* lower limit for zone 0, no upper limit for zone 3).                     *)
(***************************************************************************)
C13_ColourOfBand ==
  current_zone # -1 =>
    \E k \in 0..3 :
      /\ rgb = BandColour[k + 1]
      /\ InBand(k, level)

(***************************************************************************)
(* C14 as stated: a periodic update of loop() whose classification leaves  *)
(* current_zone at its previous value issues no LED transmission.          *)
(***************************************************************************)
C14_TransmitOnlyOnChange ==
  (JustUpdated /\ hist.prev = current_zone) => ~UpdateTransmitted

(***************************************************************************)
(* C14 amended: every periodic update of loop() calls setLedColor once     *)
(* with the colour of current_zone, whether or not the classification      *)
(* changed the zone: with led_chan and led_encoder both set the update     *)
(* issues one rmt_transmit carrying that colour as G, R, B; with either of *)
(* them NULL no rmt_transmit is ever issued.                               *)
(***************************************************************************)
C14_TransmitEveryUpdate ==
  JustUpdated =>
    /\ iter.ledcalls = 1
    /\ rgb = ZoneColor(current_zone)
    /\ (led_chan /\ led_encoder) =>
         /\ UpdateTransmitted
         /\ tx.data = <<rgb[2], rgb[1], rgb[3]>>
         /\ log[Len(log)] = <<"rmt_transmit", tx.calls, tx.last>>
    /\ ~(led_chan /\ led_encoder) => tx.calls = 0

C14_Witness ==
  /\ JustUpdated
  /\ hist.prev = current_zone
  /\ current_zone = 2
  /\ UpdateTransmitted
  /\ tx.sent >= 2
  /\ tx.data = <<255, 255, 0>>

\* the position in the log of the first operation of one of the kinds (0: none)
FirstIndex(l, kinds) ==
  IF \E i \in 1..Len(l) : l[i][1] \in kinds
  THEN CHOOSE i \in 1..Len(l) :
         /\ l[i][1] \in kinds
         /\ \A j \in 1..(i - 1) : l[j][1] \notin kinds
  ELSE 0

\* the operations on the LED channel
LedKinds == {"rmt_new_tx_channel", "ws2812_encoder_new", "rmt_enable", "rmt_transmit"}

(***************************************************************************)
(* C17: in setup() the backlight duty is configured before any display     *)
(* reset toggle or command and before any LED channel operation; all the   *)
(* display operations come before rmt_new_tx_channel, which is called only *)
(* with the handshake absent or whole and SLPIN settled for 100 ms; the    *)
(* first rmt_transmit comes after rmt_new_tx_channel, ws2812_encoder_new   *)
(* and rmt_enable, in this order, the first two having succeeded; and the  *)
(* transmission of setup(), like every transmission that goes out on the   *)
(* channel, comes after rmt_enable has succeeded too.                      *)
(***************************************************************************)
C17_StartupOrder ==
  LET d   == FirstIndex(log, {"duty"})
      ch  == FirstIndex(log, {"rmt_new_tx_channel"})
      en  == FirstIndex(log, {"ws2812_encoder_new"})
      ena == FirstIndex(log, {"rmt_enable"})
      t   == FirstIndex(log, {"rmt_transmit"})
  IN  /\ log # <<>> => d = 1
      /\ \A i \in 1..Len(log) : log[i][1] \in DisplayKinds \cup LedKinds => i > 1
      /\ ch > 0 =>
           /\ \A i \in 1..Len(log) : log[i][1] \in DisplayKinds => i < ch
           /\ DisplayEvents \in {<<>>, LcdSleepSequence}
           /\ DisplayEvents # <<>> =>
                /\ log[ch - 1][1] = "cmd" /\ log[ch - 1][2] = SLPIN
                /\ log[ch][3] >= log[ch - 1][3] + 100
      /\ en > 0 => ch > 0 /\ ch < en /\ log[ch][2] = 1
      /\ ena > 0 => en > 0 /\ en < ena /\ log[en][2] = 1
      /\ t > 0 => ena > 0 /\ ena < t
      /\ (t > 0 /\ (~iter.ran \/ tx.sent >= 1)) =>
           /\ log[ch][2] = 1 /\ log[en][2] = 1 /\ log[ena][2] = 1
           /\ led_chan /\ led_encoder /\ chan_enabled
           /\ tx.sent = tx.calls

C17_Witness ==
  /\ pc = "loop"
  /\ ~iter.ran
  /\ DisplayEvents = LcdSleepSequence
  /\ tx.sent = 1
  /\ Len(log) = 14
  /\ log[14][1] = "rmt_transmit"

\* ws2812_encoder_new returned ESP_FAIL in setup()
EncoderNewFailed ==
  \E i \in 1..Len(log) : log[i][1] = "ws2812_encoder_new" /\ log[i][2] = 0

(***************************************************************************)
(* C18: when the struct allocation, the bytes-encoder creation or the      *)
(* copy-encoder creation fails, ws2812_encoder_new returns ESP_FAIL,       *)
(* leaves led_encoder NULL and has released everything it had acquired;    *)
(* led_encoder is non-NULL only with the struct and both sub-encoders      *)
(* live; after a failure no rmt_transmit is ever issued, at startup or by  *)
(* any update of loop().                                                   *)
(***************************************************************************)
C18_EncoderAllOrNothing ==
  /\ \A f \in EncoderFailures \ {"none"} :
       LET r == ws2812_encoder_new(f)
       IN  r.ret = "ESP_FAIL" /\ ~r.handle /\ r.heap = {}
  /\ EncoderNewFailed =>
       /\ ~led_encoder
       /\ heap = {}
       /\ pc = "loop"
       /\ ~chan_enabled
       /\ tx.calls = 0
       /\ \A i \in 1..Len(log) : log[i][1] # "rmt_transmit"
  /\ led_encoder <=> heap = {"encoder", "bytes_encoder", "copy_encoder"}
  /\ ~led_encoder => heap = {}
  /\ tx.calls > 0 => led_encoder

C18_Witness ==
  /\ EncoderNewFailed
  /\ led_chan
  /\ ~led_encoder
  /\ heap = {}
  /\ JustUpdated
  /\ now > 2 * BATTERY_UPDATE_MS
  /\ tx.calls = 0

(***************************************************************************)
(* The classifier from call to call (SpecClassify)                         *)
(***************************************************************************)
(***************************************************************************)
(* C15: current_zone is -1 in every state before the first getBatteryColor *)
(* call; after the first call and after any further calls with levels in   *)
(* 0..100 it is in 0..3, so it never returns to -1; and the colour written *)
(* by a call is the table entry of the zone the call stored:               *)
(* 0 (255,0,0), 1 (255,128,0), 2 (255,255,0), 3 (0,255,0).                 *)
(***************************************************************************)
C15_ZoneLifecycle ==
  /\ hist.calls = 0 => current_zone = -1 /\ hist.prev = -1
  /\ hist.calls > 0 =>
       /\ current_zone \in 0..3
       /\ rgb = BandColour[current_zone + 1]
  /\ hist.calls >= 2 => hist.prev \in 0..3

C15_Witness ==
  /\ hist.calls = MaxCalls
  /\ hist.first = 0
  /\ hist.prev = 2
  /\ current_zone = 3
  /\ rgb = <<0, 255, 0>>

ConstRun == 4

\* the reading before the level becomes constant
StartLevels == {10, 30, 60, 90}

ConvergeInit ==
  /\ FwIdle
  /\ ClsInit
  /\ pending \in UNION { {<<l0>> \o [i \in 1..ConstRun |-> L] :
                               l0 \in StartLevels \cup {L}} : L \in Levels }
  /\ trace = <<>>
  /\ colour = <<0, 0, 0>>
  /\ enc = EncIdle

SpecConverge == ConvergeInit /\ [][ScenarioStep]_vars

(***************************************************************************)
(* C20: when the level is the constant L from the second reading on, the   *)
(* zone no longer changes after 3 updates with L, the zone k it then has   *)
(* satisfies 25*k-3 <= L < 25*(k+1)+3 (no lower limit for zone 0, no upper *)
(* limit for zone 3), and on the way the zone never moves up at one update *)
(* and down at another.                                                    *)
(***************************************************************************)
C20_Convergence ==
  LET n == Len(trace)
  IN  (n >= 2 /\ \A i \in 2..n : trace[i][1] = trace[2][1]) =>
        /\ \A i \in 4..n : trace[i][2] = trace[4][2]
        /\ n >= 4 => InBand(trace[4][2], trace[2][1])
        /\ ~ \E i, j \in 1..(n - 1) :
               /\ trace[i + 1][2] > trace[i][2]
               /\ trace[j + 1][2] < trace[j][2]

C20_Witness ==
  /\ Len(trace) = 5
  /\ trace[1] = <<10, 0>>
  /\ trace[2] = <<90, 1>>
  /\ trace[3][2] = 2
  /\ trace[4][2] = 3
  /\ trace[5] = <<90, 3>>

=============================================================================
